---- MODULE Spec2Model ----
(***************************************************************************)
(* Dijkstra visualizer: the step-recording engine (dijkstra.py), the graph *)
(* loader (graph_utils.py) and the Streamlit controller (app.py).          *)
(*                                                                         *)
(* Node ids are the integers 1, 2, ... (strings in the program), None is 0,*)
(* math.inf is Inf, and edge weights are non-negative integers (the        *)
(* program's floats; the sample payload's weights are scaled by ten).      *)
(* Negative weights, which the loader does not reject, are outside the     *)
(* graphs the engine is specified for and are not drawn.                   *)
(***************************************************************************)
EXTENDS Integers, Sequences, FiniteSets, TLC

\* ---- the inputs the engine is run on ----
\* payloads declare the nodes of NodeIds and list at most MaxEdges edges
\* between them, with weights drawn from Weights
MaxEdges == 3
NodeIds == {1, 2, 3}
Weights == {0, 1}
\* an id no payload declares
Undeclared == {4}

\* ---- program values ----
None == 0
Inf == 1000

Min2(a, b) == IF a <= b THEN a ELSE b
Max2(a, b) == IF a >= b THEN a ELSE b

Range(s) == {s[i] : i \in 1 .. Len(s)}

\* ------------------------------------------------------------------------
\* graph_utils.py: the graph built from a validated payload (networkx
\* Graph / DiGraph: nodes in insertion order, one adjacency row per node in
\* insertion order, a repeated edge overwrites the weight in place).
\* ------------------------------------------------------------------------
EmptyGraph(directed) == [directed |-> directed, nodes |-> <<>>, adj |-> <<>>]

HasNode(G, n) == n \in DOMAIN G.adj

add_node(G, n) ==
  IF HasNode(G, n) THEN G
  ELSE [G EXCEPT !.nodes = Append(@, n), !.adj = @ @@ (n :> <<>>)]

SetNbr(row, v, w) ==
  IF \E k \in 1 .. Len(row) : row[k].j = v
  THEN [k \in 1 .. Len(row) |-> IF row[k].j = v THEN [j |-> v, w |-> w] ELSE row[k]]
  ELSE Append(row, [j |-> v, w |-> w])

add_edge(G, e) ==
  LET G1 == add_node(add_node(G, e.source), e.target)
      G2 == [G1 EXCEPT !.adj[e.source] = SetNbr(@, e.target, e.weight)]
  IN IF G.directed THEN G2
     ELSE [G2 EXCEPT !.adj[e.target] = SetNbr(@, e.source, e.weight)]

RECURSIVE AddNodes(_, _, _)
AddNodes(G, ns, k) ==
  IF k > Len(ns) THEN G ELSE AddNodes(add_node(G, ns[k]), ns, k + 1)

RECURSIVE AddEdges(_, _, _)
AddEdges(G, es, k) ==
  IF k > Len(es) THEN G ELSE AddEdges(add_edge(G, es[k]), es, k + 1)

load_graph_from_json_str(p) ==
  AddEdges(AddNodes(EmptyGraph(p.directed), p.nodes, 1), p.edges, 1)

\* unique_ids: the validator of GraphPayload.nodes
unique_ids(ns) == \A a, b \in 1 .. Len(ns) : ns[a] = ns[b] => a = b

GraphNodes(G) == DOMAIN G.adj

\* G[u][v]["weight"] for an edge the adjacency holds
EdgeWeight(G, u, v) ==
  LET k == CHOOSE k \in 1 .. Len(G.adj[u]) : G.adj[u][k].j = v IN G.adj[u][k].w

HasEdge(G, u, v) == \E k \in 1 .. Len(G.adj[u]) : G.adj[u][k].j = v

\* ------------------------------------------------------------------------
\* dijkstra.py: dijkstra_steps
\* ------------------------------------------------------------------------
\* min(open_set, key=dist): iteration order of a set of strings is not fixed,
\* so any node of minimal distance may be the one returned.
\* variant: any reached open node, whatever its distance
MinNodesAnyFinite(open_set, dist) ==
  IF \E n \in open_set : dist[n] < Inf
  THEN {n \in open_set : dist[n] < Inf}
  ELSE open_set

MinNodes(open_set, dist) ==
  {n \in open_set : \A m \in open_set : dist[n] <= dist[m]}

AlreadyClosed(nbr, closed) == nbr \in closed

\* variants of the comparison of line 84: none at all, and <= for <
ImprovesAlways(new_cost, old_cost) == TRUE

ImprovesOrEqual(new_cost, old_cost) == new_cost <= old_cost

Improves(new_cost, old_cost) == new_cost < old_cost

\* the log item of a skipped neighbour (lines 59-67) and of an attempted
\* relaxation (lines 74-82)
SkipLog(current, nbr, w, d) ==
  [i |-> current, j |-> nbr, link_cost |-> w, perm_cost |-> d,
   temp_cost |-> d + w, selected |-> "N/A", deleted |-> "already_closed"]

TryLog(current, nbr, w, d) ==
  [i |-> current, j |-> nbr, link_cost |-> w, perm_cost |-> d,
   temp_cost |-> d + w, selected |-> "N/A", deleted |-> "NA"]

\* variant: line 86 left out
PrevAfterImproveKeep(old_prev, current) == old_prev

PrevAfterImprove(old_prev, current) == current

\* One neighbour of the relaxation loop (lines 56-87). r holds the working
\* dist and prev, the trying_logs and, beside them, the branch taken (out).
RelaxOne(current, closed, e, r) ==
  IF AlreadyClosed(e.j, closed)
  THEN [r EXCEPT !.logs = Append(@, SkipLog(current, e.j, e.w, r.dist[current])),
                 !.out = Append(@, "skipped-already-finalized")]
  ELSE LET new_cost == r.dist[current] + e.w IN
       IF Improves(new_cost, r.dist[e.j])
       THEN [dist |-> [r.dist EXCEPT ![e.j] = new_cost],
             prev |-> [r.prev EXCEPT ![e.j] = PrevAfterImprove(@, current)],
             logs |-> Append(r.logs, TryLog(current, e.j, e.w, r.dist[current])),
             out |-> Append(r.out, "improved")]
       ELSE [r EXCEPT !.logs = Append(@, TryLog(current, e.j, e.w, r.dist[current])),
                      !.out = Append(@, "not-improved")]

RECURSIVE RelaxLoop(_, _, _, _, _)
RelaxLoop(current, closed, row, k, r) ==
  IF k > Len(row) THEN r
  ELSE RelaxLoop(current, closed, row, k + 1, RelaxOne(current, closed, row[k], r))

\* variant: line 90 left out
CloseNodeForgets(closed, current) == closed

CloseNode(closed, current) == closed \cup {current}

\* variant: lines 103-104 left out
GoalReachedNever(goal_, current) == FALSE

GoalReached(goal_, current) == goal_ /= None /\ current = goal_

\* the state after lines 23-31. outs is kept beside steps and is no part of
\* the returned value: for each step, the branch each of its attempts took.
InitialWork(G, start_) ==
  [dist |-> [n \in GraphNodes(G) |-> IF n = start_ THEN 0 ELSE Inf],
   prev |-> [n \in GraphNodes(G) |-> None],
   closed |-> {},
   open_set |-> GraphNodes(G),
   steps |-> <<>>,
   outs |-> <<>>,
   iteration |-> 0]

\* lines 43-53: the terminal step of an unreachable remainder
TerminalStep(st) ==
  [iter |-> st.iteration + 1, trying |-> <<>>, selected_node |-> None,
   closed |-> st.closed, dist |-> st.dist, prev |-> st.prev]

\* variant: a break at line 53 without the step of lines 45-52
TerminalNoStep(st) == st

Terminal(st) ==
  [st EXCEPT !.iteration = @ + 1,
             !.steps = Append(@, TerminalStep(st)),
             !.outs = Append(@, <<>>)]

\* lines 56-100: one iteration that selects, relaxes and closes current
Iterate(G, st, current) ==
  LET r == RelaxLoop(current, st.closed, G.adj[current], 1,
                     [dist |-> st.dist, prev |-> st.prev, logs |-> <<>>, out |-> <<>>])
      closed1 == CloseNode(st.closed, current)
  IN [dist |-> r.dist,
      prev |-> r.prev,
      closed |-> closed1,
      open_set |-> st.open_set \ {current},
      steps |-> Append(st.steps,
                  [iter |-> st.iteration + 1, trying |-> r.logs,
                   selected_node |-> current, closed |-> closed1,
                   dist |-> r.dist, prev |-> r.prev]),
      outs |-> Append(st.outs, r.out),
      iteration |-> st.iteration + 1]

\* ---- the engine as a state machine ----
\* G, start, goal: the arguments of dijkstra_steps; work: its locals;
\* pc: where the call stands; rp: the locals of reconstruct_path.
\* uploaded, ss, page, last: the controller (app.py), defined further down.
VARIABLES G, start, goal, work, pc, rp, uploaded, ss, page, last

engvars == <<G, start, goal, work, pc, rp>>
appvars == <<uploaded, ss, page, last>>
vars == <<G, start, goal, work, pc, rp, uploaded, ss, page, last>>

\* the declared node list: NodeIds in increasing order
RECURSIVE Ascending(_)
Ascending(S) ==
  IF S = {} THEN <<>>
  ELSE LET m == CHOOSE x \in S : \A y \in S : x <= y IN <<m>> \o Ascending(S \ {m})

\* app.py lines 35-45: the sample payload, weights in tenths
SamplePayload ==
  [directed |-> FALSE, nodes |-> <<1, 2, 3, 4>>,
   edges |-> <<[source |-> 1, target |-> 2, weight |-> 15],
               [source |-> 1, target |-> 3, weight |-> 21],
               [source |-> 2, target |-> 3, weight |-> 9],
               [source |-> 2, target |-> 4, weight |-> 20],
               [source |-> 3, target |-> 4, weight |-> 12]>>]

EdgeRecs == [source : NodeIds, target : NodeIds, weight : Weights]

Payloads ==
  {[directed |-> d, nodes |-> Ascending(NodeIds), edges |-> es] :
     d \in BOOLEAN, es \in UNION {[1 .. m -> EdgeRecs] : m \in 0 .. MaxEdges}}

Graphs == {load_graph_from_json_str(p) : p \in Payloads}

NoWork == [dist |-> <<>>, prev |-> <<>>, closed |-> {}, open_set |-> {},
           steps |-> <<>>, outs |-> <<>>, iteration |-> 0]

NoRp == [prev |-> <<>>, goal |-> None, path |-> <<>>, node |-> None]

\* the call's arguments: a drawn graph with any start and goal, declared or
\* not, or the sample graph with a start and a goal among its nodes
EngInit ==
  /\ \/ /\ G \in Graphs
        /\ start \in NodeIds \cup Undeclared
        /\ goal \in {None} \cup NodeIds \cup Undeclared
     \/ /\ G = load_graph_from_json_str(SamplePayload)
        /\ start \in Range(SamplePayload.nodes)
        /\ goal \in {None} \cup Range(SamplePayload.nodes)
  /\ work = NoWork
  /\ pc = "call"
  /\ rp = NoRp

\* lines 20-21
Raise ==
  /\ pc = "call"
  /\ ~HasNode(G, start)
  /\ pc' = "raised"
  /\ UNCHANGED <<G, start, goal, work, rp>>
  /\ UNCHANGED appvars

\* lines 23-31
Enter ==
  /\ pc = "call"
  /\ HasNode(G, start)
  /\ work' = InitialWork(G, start)
  /\ pc' = IF GraphNodes(G) = {} THEN "returned" ELSE "loop"
  /\ UNCHANGED <<G, start, goal, rp>>
  /\ UNCHANGED appvars

\* lines 33-53
TerminalIteration ==
  /\ pc = "loop"
  /\ \E current \in MinNodes(work.open_set, work.dist) :
       /\ work.dist[current] = Inf
       /\ work' = Terminal(work)
  /\ pc' = "returned"
  /\ UNCHANGED <<G, start, goal, rp>>
  /\ UNCHANGED appvars

\* lines 33-41, 56-104
Iteration ==
  /\ pc = "loop"
  /\ \E current \in MinNodes(work.open_set, work.dist) :
       /\ work.dist[current] < Inf
       /\ work' = Iterate(G, work, current)
       /\ pc' = IF GoalReached(goal, current) \/ work'.open_set = {}
                THEN "returned" ELSE "loop"
  /\ UNCHANGED <<G, start, goal, rp>>
  /\ UNCHANGED appvars

\* ------------------------------------------------------------------------
\* dijkstra.py: reconstruct_path(prev, start, goal), called on the prev map
\* of a returned step
\* ------------------------------------------------------------------------
\* the walk is cut off one node past the node count, which a chain without
\* a cycle never reaches
WalkCap == Cardinality(GraphNodes(G)) + 1

Reversed(s) == [k \in 1 .. Len(s) |-> s[Len(s) + 1 - k]]

\* lines 110-111
RpCall ==
  /\ pc = "returned"
  /\ \E k \in 1 .. Len(work.steps), g \in GraphNodes(G) :
       rp' = [prev |-> work.steps[k].prev, goal |-> g, path |-> <<>>, node |-> g]
  /\ pc' = "rp_loop"
  /\ UNCHANGED <<G, start, goal, work>>
  /\ UNCHANGED appvars

\* lines 112-116: one turn of the while loop
RpWalk ==
  /\ pc = "rp_loop"
  /\ rp.node /= None
  /\ Len(rp.path) < WalkCap
  /\ rp' = [rp EXCEPT !.path = Append(@, rp.node),
                      !.node = IF rp.node = start THEN @ ELSE rp.prev[rp.node]]
  /\ pc' = IF rp.node = start THEN "rp_check" ELSE "rp_loop"
  /\ UNCHANGED <<G, start, goal, work>>
  /\ UNCHANGED appvars

\* lines 117-119
RpResult(path, start_) ==
  IF path = <<>> \/ path[Len(path)] /= start_ THEN <<>> ELSE Reversed(path)

RpReturn ==
  /\ \/ pc = "rp_check"
     \/ pc = "rp_loop" /\ rp.node = None
  /\ rp' = [rp EXCEPT !.path = RpResult(rp.path, start)]
  /\ pc' = "rp_returned"
  /\ UNCHANGED <<G, start, goal, work>>
  /\ UNCHANGED appvars


\* ------------------------------------------------------------------------
\* dijkstra_steps as the controller calls it: every sequence of steps the
\* loop can return for (graph, start, goal), one per way min() may break
\* ties. The caller checks "start in G" first (lines 20-21).
\* ------------------------------------------------------------------------
RECURSIVE RunLoop(_, _, _)
RunLoop(G_, goal_, st) ==
  IF st.open_set = {} THEN {st.steps}
  ELSE UNION {IF st.dist[c] = Inf THEN {Terminal(st).steps}
              ELSE IF GoalReached(goal_, c) THEN {Iterate(G_, st, c).steps}
              ELSE RunLoop(G_, goal_, Iterate(G_, st, c)) :
              c \in MinNodes(st.open_set, st.dist)}

dijkstra_steps(G_, start_, goal_) == RunLoop(G_, goal_, InitialWork(G_, start_))

\* ------------------------------------------------------------------------
\* app.py: one rerun of the script per user event. ss is st.session_state
\* (pos, the layout, is left out); ss.G is <<>> for None and <<graph>>
\* otherwise, uploaded likewise for the file_uploader's value. page is what
\* the last run rendered: the select boxes with their options, the prepare
\* button, the navigation buttons and whether Prev and Next were enabled.
\* last names the event of the last run and the cursor before it.
\* ------------------------------------------------------------------------
\* the uploads: the sample payload, a two-node directed graph, a graph
\* without nodes, and a payload the validator rejects (a repeated node id)
SmallPayload ==
  [directed |-> TRUE, nodes |-> <<2, 1>>,
   edges |-> <<[source |-> 1, target |-> 2, weight |-> 1]>>]

EmptyPayload == [directed |-> FALSE, nodes |-> <<>>, edges |-> <<>>]

DupPayload == [directed |-> FALSE, nodes |-> <<1, 1>>, edges |-> <<>>]

Files == {SamplePayload, SmallPayload, EmptyPayload, DupPayload}

\* graph_utils.py lines 33-36: the payload fails validation
LoadRaises(p) == ~unique_ids(p.nodes)

\* variant: line 92 left out
IdxAfterPrepareKeep(idx) == idx

IdxAfterPrepare(idx) == 0

PrevIdx(idx) == Max2(0, idx - 1)

NextIdx(idx, n) == Min2(n - 1, idx + 1)

\* lines 50-62
AfterUpload(up) ==
  IF up = <<>> THEN ss
  ELSE IF LoadRaises(up[1]) THEN [ss EXCEPT !.G = <<>>, !.steps = <<>>, !.idx = 0]
  ELSE [ss EXCEPT !.G = <<load_graph_from_json_str(up[1])>>]

\* lines 77-87: the select boxes keep their value while their options are
\* those of the last run and start from their default otherwise
AfterSelect(ss1, ev) ==
  IF ss1.G = <<>> THEN ss1
  ELSE LET nodes == ss1.G[1].nodes
           same == page.selects /\ page.options = nodes
       IN [ss1 EXCEPT
             !.start = IF same
                       THEN (IF ev.kind = "select_start" THEN ev.val ELSE ss.start)
                       ELSE IF nodes /= <<>> THEN nodes[1] ELSE None,
             !.goal = IF same
                      THEN (IF ev.kind = "select_goal" THEN ev.val ELSE ss.goal)
                      ELSE None]

\* lines 89-97
AfterPrepare(ss2, ev) ==
  IF ss2.G = <<>> \/ ev.kind /= "prepare" THEN {ss2}
  ELSE IF ~HasNode(ss2.G[1], ss2.start)
       THEN {[ss2 EXCEPT !.steps = <<>>, !.idx = 0]}
       ELSE {[ss2 EXCEPT !.steps = s, !.idx = IdxAfterPrepare(@)] :
               s \in dijkstra_steps(ss2.G[1], ss2.start, ss2.goal)}

\* lines 103-113, and what the run leaves on the page
AfterNav(ss3, ev) ==
  LET nav == ss3.G /= <<>> /\ ss3.steps /= <<>>
      n == Len(ss3.steps)
      i1 == IF nav /\ ev.kind = "reset" THEN 0 ELSE ss3.idx
      i2 == IF nav /\ ev.kind = "prev" THEN PrevIdx(i1) ELSE i1
      i3 == IF nav /\ ev.kind = "next" THEN NextIdx(i2, n) ELSE i2
  IN [ss |-> [ss3 EXCEPT !.idx = i3],
      page |-> [selects |-> ss3.G /= <<>>,
                options |-> IF ss3.G = <<>> THEN <<>> ELSE ss3.G[1].nodes,
                nav |-> nav,
                prev_enabled |-> nav /\ ~(i1 <= 0),
                next_enabled |-> nav /\ ~(i2 >= n - 1)]]

Script(up, ev) ==
  {AfterNav(ss3, ev) : ss3 \in AfterPrepare(AfterSelect(AfterUpload(up), ev), ev)}

Rerun(up, ev) ==
  /\ \E r \in Script(up, ev) : ss' = r.ss /\ page' = r.page
  /\ uploaded' = up
  /\ last' = [op |-> ev.kind, idx0 |-> ss.idx]
  /\ UNCHANGED engvars

Event(kind, val) == [kind |-> kind, val |-> val]

Upload ==
  \E f \in Files : <<f>> /= uploaded /\ Rerun(<<f>>, Event("upload", None))

ClearUpload == uploaded /= <<>> /\ Rerun(<<>>, Event("clear", None))

SelectStart ==
  /\ page.selects
  /\ \E n \in Range(page.options) :
       n /= ss.start /\ Rerun(uploaded, Event("select_start", n))

SelectGoal ==
  /\ page.selects
  /\ \E g \in {None} \cup Range(page.options) :
       g /= ss.goal /\ Rerun(uploaded, Event("select_goal", g))

PressPrepare == page.selects /\ Rerun(uploaded, Event("prepare", None))

PressReset == page.nav /\ Rerun(uploaded, Event("reset", None))

PressPrev == page.prev_enabled /\ Rerun(uploaded, Event("prev", None))

PressNext == page.next_enabled /\ Rerun(uploaded, Event("next", None))

AppNext ==
  \/ Upload \/ ClearUpload \/ SelectStart \/ SelectGoal
  \/ PressPrepare \/ PressReset \/ PressPrev \/ PressNext

\* lines 19-25, and the page of a first run without an upload
AppInit ==
  /\ uploaded = <<>>
  /\ ss = [G |-> <<>>, start |-> None, goal |-> None, steps |-> <<>>, idx |-> 0]
  /\ page = [selects |-> FALSE, options |-> <<>>, nav |-> FALSE,
             prev_enabled |-> FALSE, next_enabled |-> FALSE]
  /\ last = [op |-> "init", idx0 |-> 0]

\* no engine call under way
EngIdle ==
  /\ G = EmptyGraph(FALSE)
  /\ start = None
  /\ goal = None
  /\ work = NoWork
  /\ pc = "idle"
  /\ rp = NoRp

\* ---- specifications ----
\* dijkstra_steps on every drawn (graph, start, goal)
Init == EngInit /\ AppInit

Next == Raise \/ Enter \/ TerminalIteration \/ Iteration

Spec == Init /\ [][Next]_vars

\* dijkstra_steps followed by reconstruct_path on a returned step
RpNext ==
  \/ Raise \/ Enter \/ TerminalIteration \/ Iteration
  \/ RpCall \/ RpWalk \/ RpReturn

RpSpec == Init /\ [][RpNext]_vars

\* the controller
AppStart == EngIdle /\ AppInit

AppSpec == AppStart /\ [][AppNext]_vars

\* ------------------------------------------------------------------------
\* Properties
\* ------------------------------------------------------------------------
Steps == work.steps

LastStep == work.steps[Len(work.steps)]

\* reference: shortest-path distances by |V| - 1 Bellman-Ford rounds over
\* the edges <<u, v, w>> in traversal direction
EdgeSet(G_) ==
  UNION {{<<u, G_.adj[u][k].j, G_.adj[u][k].w>> : k \in 1 .. Len(G_.adj[u])} :
           u \in GraphNodes(G_)}

MinOf(S) == CHOOSE c \in S : \A c2 \in S : c <= c2

RECURSIVE BellmanFord(_, _, _)
BellmanFord(E, d, rounds) ==
  IF rounds <= 0 THEN d
  ELSE BellmanFord(E,
         [v \in DOMAIN d |->
            MinOf({d[v]} \cup {d[e[1]] + e[3] : e \in {x \in E : x[2] = v /\ d[x[1]] < Inf}})],
         rounds - 1)

ShortestDist(G_, s) ==
  BellmanFord(EdgeSet(G_), [v \in GraphNodes(G_) |-> IF v = s THEN 0 ELSE Inf],
              Cardinality(GraphNodes(G_)) - 1)

\* the nodes of G no path from start leads to
Unreached ==
  LET d == ShortestDist(G, start) IN {u \in GraphNodes(G) : d[u] = Inf}

\* C1: with no goal given, in the last returned step the recorded dist of
\* every closed node is the true shortest-path distance from start.
C1_FinalDistancesAreShortest ==
  (pc = "returned" /\ goal = None /\ Steps /= <<>>) =>
    LET d == ShortestDist(G, start)
    IN \A n \in LastStep.closed : LastStep.dist[n] = d[n]

\* C1 witness: a full run in which a closed node's final distance beats the
\* weight of its direct edge from start (a first estimate was improved).
C1_Witness ==
  /\ pc = "returned" /\ goal = None /\ Steps /= <<>>
  /\ \E n \in LastStep.closed :
       /\ n /= start /\ HasEdge(G, start, n)
       /\ LastStep.dist[n] < EdgeWeight(G, start, n)

\* C4: every recorded attempt carries its outcome (improved, not-improved,
\* skipped-already-finalized), so that the outcome can be read off the
\* attempt's outcome fields (selected, deleted): two recorded attempts with
\* the same outcome fields had the same outcome.
C4_AttemptCarriesOutcome ==
  \A k1, k2 \in 1 .. Len(Steps) :
    \A i1 \in 1 .. Len(Steps[k1].trying), i2 \in 1 .. Len(Steps[k2].trying) :
      (/\ Steps[k1].trying[i1].selected = Steps[k2].trying[i2].selected
       /\ Steps[k1].trying[i1].deleted = Steps[k2].trying[i2].deleted)
      => work.outs[k1][i1] = work.outs[k2][i2]

\* C5: the k-th step has iter = k; the first step closes start alone; each
\* later step with a selected node adds exactly that node, new to the closed
\* set; the terminal step (no selected node) adds none and is the last.
C5_ClosedGrowsByOne ==
  \A k \in 1 .. Len(Steps) :
    /\ Steps[k].iter = k
    /\ k = 1 => Steps[k].selected_node = start /\ Steps[k].closed = {start}
    /\ k > 1 =>
         IF Steps[k].selected_node /= None
         THEN /\ Steps[k].selected_node \notin Steps[k - 1].closed
              /\ Steps[k].closed = Steps[k - 1].closed \cup {Steps[k].selected_node}
         ELSE /\ Steps[k].closed = Steps[k - 1].closed
              /\ k = Len(Steps)

\* C5 witness: two nodes closed one after the other, then the terminal step.
C5_Witness ==
  /\ Len(Steps) = 3
  /\ LastStep.selected_node = None
  /\ Cardinality(LastStep.closed) = 2

\* C6: between consecutive steps no node's dist grows, and a node closed in
\* the earlier step keeps its dist and prev.
C6_DistMonotone ==
  \A k \in 1 .. Len(Steps) - 1 : \A n \in GraphNodes(G) :
    /\ Steps[k + 1].dist[n] <= Steps[k].dist[n]
    /\ n \in Steps[k].closed =>
         /\ Steps[k + 1].dist[n] = Steps[k].dist[n]
         /\ Steps[k + 1].prev[n] = Steps[k].prev[n]

\* C6 witness: a finite recorded distance drops in the next step, and the
\* node is closed after that and keeps it.
C6_Witness ==
  /\ Len(Steps) >= 3
  /\ \E n \in GraphNodes(G) :
       /\ Steps[1].dist[n] < Inf
       /\ Steps[2].dist[n] < Steps[1].dist[n]
       /\ n \in Steps[3].closed
       /\ Steps[3].dist[n] = Steps[2].dist[n]

\* C7: with a goal that is reachable from start, the returned sequence ends
\* with the step that selects goal, goal is in no earlier closed set, the
\* length is the size of the last closed set, and it is below the node count
\* when a node is still open.
C7_StopsAtGoal ==
  (/\ pc = "returned" /\ goal /= None /\ HasNode(G, goal)
   /\ ShortestDist(G, start)[goal] < Inf) =>
    /\ LastStep.selected_node = goal
    /\ \A k \in 1 .. Len(Steps) - 1 : goal \notin Steps[k].closed
    /\ Len(Steps) = Cardinality(LastStep.closed)
    /\ work.open_set /= {} => Len(Steps) < Cardinality(GraphNodes(G))

\* C7 witness: goal is closed second while a reachable node is still open.
C7_Witness ==
  /\ pc = "returned" /\ goal /= None /\ HasNode(G, goal)
  /\ Len(Steps) = 2
  /\ LastStep.selected_node = goal
  /\ \E n \in work.open_set : work.dist[n] < Inf

\* C8 as stated: whenever some node has no path from start (whatever the
\* goal), that node is never closed, its dist is Inf in every step, and the
\* last step is the terminal step (no selected node, no attempts).
C8_UnreachableEndsTerminal ==
  pc = "returned" =>
  LET unreached == Unreached IN
  unreached /= {} =>
    /\ \A u \in unreached : \A k \in 1 .. Len(Steps) :
         u \notin Steps[k].closed /\ Steps[k].dist[u] = Inf
    /\ LastStep.selected_node = None
    /\ LastStep.trying = <<>>

\* C8 amended: a node without a path from start is never closed and its dist
\* is Inf in every step; the last step is the terminal step when no goal is
\* given or the goal is itself not reachable from start.
C8_UnreachableEndsTerminalUnlessGoal ==
  pc = "returned" =>
  LET unreached == Unreached IN
  unreached /= {} =>
    /\ \A u \in unreached : \A k \in 1 .. Len(Steps) :
         u \notin Steps[k].closed /\ Steps[k].dist[u] = Inf
    /\ (goal = None \/ ~HasNode(G, goal) \/ goal \in unreached) =>
         /\ LastStep.selected_node = None
         /\ LastStep.trying = <<>>

\* C8 witness: a goal was given that no path reaches; two nodes were closed
\* before the terminal step.
C8_Witness ==
  /\ pc = "returned" /\ goal \in Unreached
  /\ Len(Steps) = 3
  /\ LastStep.selected_node = None

\* C9: in every step, a node n with predecessor p has (p, n) as an edge in
\* traversal direction, p closed and dist[n] = dist[p] + weight(p, n); prev
\* is None exactly for start and for the nodes at distance Inf.
C9_PrevConsistent ==
  \A k \in 1 .. Len(Steps) : \A n \in GraphNodes(G) :
    LET s == Steps[k]  p == Steps[k].prev[n] IN
      /\ p /= None =>
           /\ HasEdge(G, p, n)
           /\ p \in s.closed
           /\ s.dist[n] = s.dist[p] + EdgeWeight(G, p, n)
      /\ p = None <=> (n = start \/ s.dist[n] = Inf)

\* C9 witness: a step whose prev map holds a chain of two edges, the second
\* of which replaced an earlier predecessor.
C9_Witness ==
  /\ Len(Steps) >= 2
  /\ \E n \in GraphNodes(G) :
       /\ Steps[1].prev[n] = start
       /\ LastStep.prev[n] \notin {None, start}
       /\ LastStep.prev[LastStep.prev[n]] = start

\* the k-th predecessor of n in a prev map (None once the chain has ended)
RECURSIVE KthPrev(_, _, _)
KthPrev(prev, n, k) ==
  IF k = 0 \/ n = None THEN n ELSE KthPrev(prev, prev[n], k - 1)

ChainReaches(prev, g, s) ==
  \E k \in 0 .. Cardinality(DOMAIN prev) - 1 : KthPrev(prev, g, k) = s

\* C10: no prev map of a step holds a predecessor cycle; the walk of
\* reconstruct_path visits at most |V| nodes (so it is never cut off and
\* ends); it returns [start] for goal = start, the chain from start to goal
\* when the walk reaches start, and the empty list otherwise.
C10_WalkEndsWithPath ==
  /\ pc = "returned" =>
       \A k \in 1 .. Len(Steps) : \A n \in GraphNodes(G) :
         KthPrev(Steps[k].prev, n, Cardinality(GraphNodes(G))) = None
  /\ pc \in {"rp_loop", "rp_check", "rp_returned"} =>
       Len(rp.path) <= Cardinality(GraphNodes(G))
  /\ pc = "rp_returned" =>
       /\ rp.goal = start => rp.path = <<start>>
       /\ ChainReaches(rp.prev, rp.goal, start) =>
            /\ rp.path /= <<>>
            /\ rp.path[1] = start
            /\ rp.path[Len(rp.path)] = rp.goal
            /\ \A i \in 1 .. Len(rp.path) - 1 : rp.prev[rp.path[i + 1]] = rp.path[i]
       /\ ~ChainReaches(rp.prev, rp.goal, start) => rp.path = <<>>

\* C10 witness: the walk returned a path of three nodes over a prev map of a
\* graph with a zero-weight self-loop.
C10_Witness ==
  /\ pc = "rp_returned"
  /\ Len(rp.path) = 3
  /\ \E n \in GraphNodes(G) : HasEdge(G, n, n) /\ EdgeWeight(G, n, n) = 0

\* C2: a non-empty ss.steps is a sequence dijkstra_steps returns for the
\* stored graph, start and goal.
C2_StepsMatchSelection ==
  ss.steps /= <<>> =>
    /\ ss.G /= <<>>
    /\ HasNode(ss.G[1], ss.start)
    /\ ss.steps \in dijkstra_steps(ss.G[1], ss.start, ss.goal)

\* C3: whenever ss.steps is non-empty, 0 <= ss.idx <= len(ss.steps) - 1.
C3_CursorInRange ==
  ss.steps /= <<>> => 0 <= ss.idx /\ ss.idx <= Len(ss.steps) - 1

\* C3 witness: prepare has just replaced the sequence by one that is shorter
\* than the cursor's old position.
C3_Witness ==
  /\ last.op = "prepare"
  /\ ss.steps /= <<>>
  /\ last.idx0 > Len(ss.steps) - 1
====
